---- MODULE Spec2Model ----
(***************************************************************************)
(* A model of break_reminder.py: the configuration lookup and parsing done *)
(* at the start of main(), and the reminder loop of main().                *)
(*                                                                         *)
(* Texts (the values of the INI file, the default strings) are tuples of   *)
(* one-character strings, so that int() and strptime("%H:%M") are modelled *)
(* as parsers.  Date-times are seconds since the midnight that starts the  *)
(* model's calendar; times-of-day are [hour, minute, second] records, as   *)
(* datetime.time compares them.  The clock moves in steps of Tick seconds. *)
(***************************************************************************)
EXTENDS Integers, Sequences, FiniteSets

VARIABLES
    userFile,        \* the file at USER_CONFIG_PATH (or NoFile)
    systemFile,      \* the file at SYSTEM_CONFIG_PATH (or NoFile)
    clock,           \* the wall clock: the date-time datetime.now() returns
    pc,              \* where main() is: "start", "loop", "sleep", "crashed"
    interval,        \* main's local interval
    work_start,      \* main's local work_start (a time-of-day)
    work_end,        \* main's local work_end (a time-of-day)
    first_run,       \* main's local first_run
    sleeping,        \* which await main is suspended in: "first", "steady", "wait"
    sleep_duration,  \* the delay handed to asyncio.sleep by the last await
    checked,         \* within_work_hours' local now (the latest reading it took)
    wait_now,        \* sleep_until_work_start's local now (its own clock reading)
    shows,           \* history: number of Notifier.show calls made (saturates at MaxShows)
    notification,    \* history: the arguments of the last show call
    last,            \* history: what the latest pass of the loop did:
                     \*   "notified", "wait", or "none" before the first pass
    prev,            \* history: what the pass before it did
    waited,          \* history: a window check has failed since the start
    since_show,      \* history: clock time passed since the latest show call
                     \*   (saturates at MaxSince ticks)
    error            \* history: the exception that ended the process, if any

vars == <<userFile, systemFile, clock, pc, interval, work_start, work_end,
          first_run, sleeping, sleep_duration, checked, wait_now, shows,
          notification, last, prev, waited, since_show, error>>

----------------------------------------------------------------------------
(* Bounds of the model *)

\* the clock read by a statement may be up to MaxDrift ticks later than the
\* point at which the previous statement left it (execution time, a late wake-up)
MaxDrift == 1
\* the show counter saturates here
MaxShows == 3
\* the calendar wraps after this many days (date-times are only compared
\* within one pass of the loop, which spans at most two dates)
CalendarDays == 2
\* the time since the latest show call is counted up to this many ticks
MaxSince == 2

----------------------------------------------------------------------------
(* Time *)

SecondsPerMinute == 60
SecondsPerHour == 60 * 60
SecondsPerDay == 24 * 60 * 60
\* the resolution of the model's clock, in seconds
Tick == SecondsPerHour

\* datetime.time(hour, minute, second)
Time(h, m, s) == [hour |-> h, minute |-> m, second |-> s]

\* datetime.datetime.time(): the time-of-day of a date-time
TimeOf(t) ==
    LET tod == t % SecondsPerDay
    IN  Time(tod \div SecondsPerHour,
             (tod % SecondsPerHour) \div SecondsPerMinute,
             tod % SecondsPerMinute)

\* datetime.datetime.date(): the date of a date-time, as a day number
DateOf(t) == t \div SecondsPerDay

\* datetime.datetime.combine(date, time)
Combine(d, tm) ==
    d * SecondsPerDay + tm.hour * SecondsPerHour
        + tm.minute * SecondsPerMinute + tm.second

\* datetime.time's <=: the fields are compared in order
TimeLE(a, b) ==
    \/ a.hour < b.hour
    \/ a.hour = b.hour /\ a.minute < b.minute
    \/ a.hour = b.hour /\ a.minute = b.minute /\ a.second <= b.second

\* a reading of the clock: the clock is at t, the reading is taken d ticks later
Drifts == 0 .. MaxDrift
Reading(t, d) == t + d * Tick

\* the stored clock wraps with the calendar
Wrap(t) == t % (CalendarDays * SecondsPerDay)

\* the time since the latest show call once the clock has gone from t0 to t1
Since(since, t0, t1) ==
    LET passed == since + ((t1 - t0) % (CalendarDays * SecondsPerDay))
    IN  IF passed > MaxSince * Tick THEN MaxSince * Tick ELSE passed

----------------------------------------------------------------------------
(* Texts and their parsers *)

Digits == <<"0", "1", "2", "3", "4", "5", "6", "7", "8", "9">>
IsDigit(c) == \E i \in 1 .. 10 : Digits[i] = c
DigitVal(c) == (CHOOSE i \in 1 .. 10 : Digits[i] = c) - 1

AllDigits(s) == Len(s) > 0 /\ \A i \in 1 .. Len(s) : IsDigit(s[i])

RECURSIVE DecimalValue(_)
DecimalValue(s) ==
    IF Len(s) = 0 THEN 0
    ELSE 10 * DecimalValue(SubSeq(s, 1, Len(s) - 1)) + DigitVal(s[Len(s)])

Parsed(v) == [ok |-> TRUE, val |-> v]
ValueError == [ok |-> FALSE, val |-> 0]

\* int(text) as configparser.getint applies it: an optional sign and digits
ParseInt(s) ==
    IF Len(s) > 0 /\ s[1] \in {"-", "+"}
    THEN IF AllDigits(Tail(s))
         THEN Parsed(IF s[1] = "-" THEN 0 - DecimalValue(Tail(s))
                                   ELSE DecimalValue(Tail(s)))
         ELSE ValueError
    ELSE IF AllDigits(s) THEN Parsed(DecimalValue(s)) ELSE ValueError

parse_time_Hour24(s) ==
    LET colons == {i \in 1 .. Len(s) : s[i] = ":"}
    IN  IF Cardinality(colons) # 1 THEN ValueError
        ELSE LET c == CHOOSE i \in colons : TRUE
                 hh == SubSeq(s, 1, c - 1)
                 mm == SubSeq(s, c + 1, Len(s))
             IN  IF /\ AllDigits(hh) /\ Len(hh) <= 2 /\ DecimalValue(hh) <= 24
                    /\ AllDigits(mm) /\ Len(mm) <= 2 /\ DecimalValue(mm) <= 59
                 THEN Parsed(Time(DecimalValue(hh) % 24, DecimalValue(mm), 0))
                 ELSE ValueError

\* datetime.datetime.strptime(time_str, "%H:%M").time(): one or two digits
\* of hour (0-23), a colon, one or two digits of minute (0-59), nothing else
parse_time(s) ==
    LET colons == {i \in 1 .. Len(s) : s[i] = ":"}
    IN  IF Cardinality(colons) # 1 THEN ValueError
        ELSE LET c == CHOOSE i \in colons : TRUE
                 hh == SubSeq(s, 1, c - 1)
                 mm == SubSeq(s, c + 1, Len(s))
             IN  IF /\ AllDigits(hh) /\ Len(hh) <= 2 /\ DecimalValue(hh) <= 23
                    /\ AllDigits(mm) /\ Len(mm) <= 2 /\ DecimalValue(mm) <= 59
                 THEN Parsed(Time(DecimalValue(hh), DecimalValue(mm), 0))
                 ELSE ValueError

----------------------------------------------------------------------------
(* Configuration *)

DEFAULT_INTERVAL == 3600
DEFAULT_START == <<"0", "9", ":", "0", "0">>
DEFAULT_END == <<"1", "7", ":", "0", "0">>

NOTIFICATION_TITLE == "Break Reminder"
NOTIFICATION_MESSAGE == "It's time to take a break and stretch!"
GreetingMessage_AsReminder == NOTIFICATION_MESSAGE
\* the message of the notification sent when first_run is true
GreetingMessage == "Starting work."

Keys == {"interval", "start", "end"}

\* an INI file: options maps the keys the file holds ([schedule] interval,
\* [workhours] start, [workhours] end) to their texts
File(opts) == [exists |-> TRUE, options |-> opts]
\* a path at which os.path.exists is false
NoFile == [exists |-> FALSE, options |-> [k \in {} |-> <<>>]]

\* the texts the model's files draw their values from
IntervalTexts ==
    { <<"3", "6", "0", "0">>, <<"7", "2", "0", "0">>, <<"0">>,
      <<"-", "3", "6", "0", "0">>, <<"1", "h">> }
TimeTexts ==
    { <<"0", "0", ":", "0", "0">>, <<"9", ":", "0", "0">>,
      <<"1", "7", ":", "0", "0">>, <<"2", "4", ":", "0", "0">>,
      <<"0", "9", "0", "0">> }
TextsOf(k) == IF k = "interval" THEN IntervalTexts ELSE TimeTexts

\* every file holding some of the keys, each with one of its texts
Files ==
    UNION { { File(o) : o \in { f \in [K -> IntervalTexts \cup TimeTexts] :
                                   \A k \in K : f[k] \in TextsOf(k) } }
            : K \in SUBSET Keys }
UserFiles == {NoFile} \cup Files
SystemFiles ==
    { NoFile,
      File([k \in Keys |->
              IF k = "interval" THEN <<"7", "2", "0", "0">>
              ELSE IF k = "start" THEN <<"0", "0", ":", "0", "0">>
              ELSE <<"1", "7", ":", "0", "0">>]) }

get_config_path_SystemFirst(user, system) ==
    IF system.exists THEN "system" ELSE "user"

\* get_config_path: the user path if a file exists there, else the system path
get_config_path(user, system) == IF user.exists THEN "user" ELSE "system"

\* ConfigParser.get/getint with a fallback: the fallback stands in for a
\* missing key only
HasOption(file, k) == k \in DOMAIN file.options

load_config_DefaultsUnlessComplete(file) ==
    IF file.exists /\ DOMAIN file.options = Keys
    THEN LET n == ParseInt(file.options["interval"])
         IN  IF n.ok
             THEN Parsed([interval |-> n.val, start |-> file.options["start"],
                          end |-> file.options["end"]])
             ELSE ValueError
    ELSE Parsed([interval |-> DEFAULT_INTERVAL, start |-> DEFAULT_START,
                 end |-> DEFAULT_END])

\* load_config: the dictionary it returns, or the ValueError getint raises
load_config(file) ==
    IF file.exists
    THEN LET n == IF HasOption(file, "interval")
                  THEN ParseInt(file.options["interval"])
                  ELSE Parsed(DEFAULT_INTERVAL)
             s == IF HasOption(file, "start")
                  THEN file.options["start"] ELSE DEFAULT_START
             e == IF HasOption(file, "end")
                  THEN file.options["end"] ELSE DEFAULT_END
         IN  IF n.ok
             THEN Parsed([interval |-> n.val, start |-> s, end |-> e])
             ELSE ValueError
    ELSE Parsed([interval |-> DEFAULT_INTERVAL, start |-> DEFAULT_START,
                 end |-> DEFAULT_END])

----------------------------------------------------------------------------
(* The reminder loop *)

within_work_hours_EndExclusive(start, end, now) ==
    TimeLE(start, TimeOf(now)) /\ ~TimeLE(end, TimeOf(now))

within_work_hours_NoEnd(start, end, now) == TimeLE(start, TimeOf(now))

within_work_hours_Overnight(start, end, now) ==
    IF TimeLE(start, end)
    THEN TimeLE(start, TimeOf(now)) /\ TimeLE(TimeOf(now), end)
    ELSE TimeLE(start, TimeOf(now)) \/ TimeLE(TimeOf(now), end)

\* within_work_hours, given the reading of the clock it takes
within_work_hours(start, end, now) ==
    TimeLE(start, TimeOf(now)) /\ TimeLE(TimeOf(now), end)

\* time_until, given the reading of the clock it takes
time_until(target, now) ==
    IF target - now > 0 THEN target - now ELSE 0

next_start_TodayOnly(start, now) == Combine(DateOf(now), start)

next_start_TodayWhenEqual(start, now) ==
    LET today_start == Combine(DateOf(now), start)
    IN  IF now > today_start
        THEN Combine(DateOf(now) + 1, start)
        ELSE today_start

next_start_AlwaysTomorrow(start, now) == Combine(DateOf(now) + 1, start)

\* sleep_until_work_start's next_start, given its reading of the clock
next_start(start, now) ==
    LET today_start == Combine(DateOf(now), start)
    IN  IF now >= today_start
        THEN Combine(DateOf(now) + 1, start)
        ELSE today_start

\* the arguments send_notification is called with
Notification(title, message, timeout) ==
    [title |-> title, message |-> message, timeout |-> timeout]
NoNotification == Notification("", "", 0)

Count(n) == IF n < MaxShows THEN n + 1 ELSE n

StartTimes == { h * Tick : h \in 0 .. 23 }

Init ==
    /\ userFile \in UserFiles
    /\ systemFile \in SystemFiles
    /\ clock \in StartTimes
    /\ pc = "start"
    /\ interval = 0
    /\ work_start = Time(0, 0, 0)
    /\ work_end = Time(0, 0, 0)
    /\ first_run = FALSE
    /\ sleeping = "none"
    /\ sleep_duration = 0
    /\ checked = 0
    /\ wait_now = 0
    /\ shows = 0
    /\ notification = NoNotification
    /\ last = "none"
    /\ prev = "none"
    /\ waited = FALSE
    /\ since_show = 0
    /\ error = "none"

\* main, lines 146-155: the configuration is resolved and first_run is set
Startup ==
    /\ pc = "start"
    /\ LET path == get_config_path(userFile, systemFile)
           config == load_config(IF path = "user" THEN userFile ELSE systemFile)
           s == IF config.ok THEN parse_time(config.val.start) ELSE ValueError
           e == IF config.ok THEN parse_time(config.val.end) ELSE ValueError
       IN  IF config.ok /\ s.ok /\ e.ok
           THEN /\ interval' = config.val.interval
                /\ work_start' = s.val
                /\ work_end' = e.val
                /\ first_run' = TRUE
                /\ pc' = "loop"
                /\ error' = error
           ELSE /\ pc' = "crashed"
                /\ error' = "ValueError"
                /\ UNCHANGED <<interval, work_start, work_end, first_run>>
    /\ UNCHANGED <<userFile, systemFile, clock, sleeping, sleep_duration,
                   checked, wait_now, shows, notification, last, prev, waited,
                   since_show>>

Notify_NoAwait(message, now, delivered) ==
    /\ clock' = Wrap(now)
    /\ checked' = Wrap(now)
    /\ shows' = Count(shows)
    /\ notification' = Notification(NOTIFICATION_TITLE, message, 10)
    /\ since_show' = 0
    /\ prev' = last
    /\ last' = "notified"
    /\ IF delivered
       THEN /\ pc' = "loop"
            /\ sleep_duration' = interval
            /\ error' = error
       ELSE /\ pc' = "crashed"
            /\ error' = "notify"
            /\ UNCHANGED sleep_duration
    /\ UNCHANGED <<userFile, systemFile, interval, work_start, work_end,
                   first_run, sleeping, wait_now, waited>>

Notify_LogAndContinue(message, now, delivered) ==
    /\ clock' = Wrap(now)
    /\ checked' = Wrap(now)
    /\ shows' = Count(shows)
    /\ notification' = Notification(NOTIFICATION_TITLE, message, 10)
    /\ since_show' = 0
    /\ prev' = last
    /\ last' = "notified"
    /\ pc' = "sleep"
    /\ sleeping' = IF first_run THEN "first" ELSE "steady"
    /\ sleep_duration' = interval
    /\ error' = IF delivered THEN error ELSE "notify"
    /\ UNCHANGED <<userFile, systemFile, interval, work_start, work_end,
                   first_run, wait_now, waited>>

\* one pass of the loop that finds the clock inside the work hours: the
\* notification is sent (the call returns, or raises when delivered is
\* false) and main awaits asyncio.sleep(interval)
Notify(message, now, delivered) ==
    /\ clock' = Wrap(now)
    /\ checked' = Wrap(now)
    /\ shows' = Count(shows)
    /\ notification' = Notification(NOTIFICATION_TITLE, message, 10)
    /\ since_show' = 0
    /\ prev' = last
    /\ last' = "notified"
    /\ IF delivered
       THEN /\ pc' = "sleep"
            /\ sleeping' = IF first_run THEN "first" ELSE "steady"
            /\ sleep_duration' = interval
            /\ error' = error
       ELSE /\ pc' = "crashed"
            /\ error' = "notify"
            /\ UNCHANGED <<sleeping, sleep_duration>>
    /\ UNCHANGED <<userFile, systemFile, interval, work_start, work_end,
                   first_run, wait_now, waited>>

\* main, lines 157-161
FirstNotification ==
    /\ pc = "loop"
    /\ \E d \in Drifts, delivered \in BOOLEAN :
          LET now == Reading(clock, d)
          IN  /\ within_work_hours(work_start, work_end, now)
              /\ first_run
              /\ Notify(GreetingMessage, now, delivered)

\* main, lines 157, 163-166
SteadyNotification ==
    /\ pc = "loop"
    /\ \E d \in Drifts, delivered \in BOOLEAN :
          LET now == Reading(clock, d)
          IN  /\ within_work_hours(work_start, work_end, now)
              /\ ~first_run
              /\ Notify(NOTIFICATION_MESSAGE, now, delivered)

WaitForWorkHours_Return(now, now2) ==
    /\ first_run' = TRUE
    /\ wait_now' = Wrap(now)
    /\ clock' = Wrap(now2)
    /\ pc' = "done"
    /\ prev' = last
    /\ last' = "wait"
    /\ waited' = TRUE
    /\ since_show' = Since(since_show, clock, clock')
    /\ UNCHANGED <<userFile, systemFile, interval, work_start, work_end,
                   sleeping, sleep_duration, shows, notification, error>>

WaitForWorkHours_KeepFirstRun(now, now2) ==
    /\ first_run' = first_run
    /\ wait_now' = Wrap(now)
    /\ sleep_duration' = time_until(next_start(work_start, now), now2)
    /\ clock' = Wrap(now2)
    /\ pc' = "sleep"
    /\ sleeping' = "wait"
    /\ prev' = last
    /\ last' = "wait"
    /\ waited' = TRUE
    /\ since_show' = Since(since_show, clock, clock')
    /\ UNCHANGED <<userFile, systemFile, interval, work_start, work_end,
                   shows, notification, error>>

\* main, lines 168-169, and sleep_until_work_start up to its await: now is
\* the reading sleep_until_work_start takes, now2 the one time_until takes
WaitForWorkHours(now, now2) ==
    /\ first_run' = TRUE
    /\ wait_now' = Wrap(now)
    /\ sleep_duration' = time_until(next_start(work_start, now), now2)
    /\ clock' = Wrap(now2)
    /\ pc' = "sleep"
    /\ sleeping' = "wait"
    /\ prev' = last
    /\ last' = "wait"
    /\ waited' = TRUE
    /\ since_show' = Since(since_show, clock, clock')
    /\ UNCHANGED <<userFile, systemFile, interval, work_start, work_end,
                   shows, notification, error>>

\* main, lines 157, 167-169: a pass of the loop that finds the clock outside
\* the work hours
OutsideWorkHours ==
    /\ pc = "loop"
    /\ \E d1 \in Drifts, d2 \in Drifts, d3 \in Drifts :
          LET now0 == Reading(clock, d1)
              now == Reading(now0, d2)
              now2 == Reading(now, d3)
          IN  /\ ~within_work_hours(work_start, work_end, now0)
              /\ checked' = Wrap(now0)
              /\ WaitForWorkHours(now, now2)

Slept_ReturnsAtOnce(delay) == clock

\* asyncio.sleep(delay) returns once delay seconds have passed, at once when
\* delay <= 0
Slept(delay) == Wrap(clock + (IF delay > 0 THEN delay ELSE 0))

\* main, lines 161-162: the first interval is over
WakeFirst ==
    /\ pc = "sleep" /\ sleeping = "first"
    /\ clock' = Slept(sleep_duration)
    /\ since_show' = Since(since_show, clock, clock')
    /\ first_run' = FALSE
    /\ pc' = "loop"
    /\ UNCHANGED <<userFile, systemFile, interval, work_start, work_end,
                   sleeping, sleep_duration, checked, wait_now, shows,
                   notification, last, prev, waited, error>>

\* main, line 166: an interval is over
WakeSteady ==
    /\ pc = "sleep" /\ sleeping = "steady"
    /\ clock' = Slept(sleep_duration)
    /\ since_show' = Since(since_show, clock, clock')
    /\ pc' = "loop"
    /\ UNCHANGED <<userFile, systemFile, interval, work_start, work_end,
                   first_run, sleeping, sleep_duration, checked, wait_now,
                   shows, notification, last, prev, waited, error>>

WakeWait_Reload ==
    /\ pc = "sleep" /\ sleeping = "wait"
    /\ clock' = Wrap(clock + (IF sleep_duration > 0 THEN sleep_duration ELSE 0))
    /\ since_show' = Since(since_show, clock, clock')
    /\ pc' = "loop"
    /\ LET config == load_config(IF userFile.exists THEN userFile ELSE systemFile)
           s == IF config.ok THEN parse_time(config.val.start) ELSE ValueError
           e == IF config.ok THEN parse_time(config.val.end) ELSE ValueError
       IN  IF config.ok /\ s.ok /\ e.ok
           THEN /\ interval' = config.val.interval
                /\ work_start' = s.val
                /\ work_end' = e.val
           ELSE UNCHANGED <<interval, work_start, work_end>>
    /\ UNCHANGED <<userFile, systemFile,
                   first_run, sleeping, sleep_duration, checked, wait_now,
                   shows, notification, last, prev, waited, error>>

\* sleep_until_work_start, line 141: the wait for the work hours is over
WakeWait ==
    /\ pc = "sleep" /\ sleeping = "wait"
    /\ clock' = Slept(sleep_duration)
    /\ since_show' = Since(since_show, clock, clock')
    /\ pc' = "loop"
    /\ UNCHANGED <<userFile, systemFile, interval, work_start, work_end,
                   first_run, sleeping, sleep_duration, checked, wait_now,
                   shows, notification, last, prev, waited, error>>

Next ==
    \/ Startup
    \/ FirstNotification
    \/ SteadyNotification
    \/ OutsideWorkHours
    \/ WakeFirst
    \/ WakeSteady
    \/ WakeWait

Spec == Init /\ [][Next]_vars

----------------------------------------------------------------------------
(* The configuration file changing under the running process *)

CompleteFile(i, s, e) ==
    File([k \in Keys |-> IF k = "interval" THEN i ELSE IF k = "start" THEN s ELSE e])

\* the user files the process may start with when the file is edited later
EditableFiles ==
    { NoFile,
      CompleteFile(<<"3", "6", "0", "0">>, <<"9", ":", "0", "0">>,
                   <<"1", "7", ":", "0", "0">>),
      File([k \in {"interval"} |-> <<"0">>]) }

\* what an edit may leave at the user path: nothing, other values, or a
\* malformed interval
EditedFiles ==
    { NoFile,
      CompleteFile(<<"7", "2", "0", "0">>, <<"0", "0", ":", "0", "0">>,
                   <<"9", ":", "0", "0">>),
      File([k \in {"interval"} |-> <<"1", "h">>]) }

\* somebody rewrites or removes the user's configuration file after main
\* has resolved its configuration; main takes no part in the step
EditConfigFile ==
    /\ pc # "start"
    /\ userFile' \in EditedFiles
    /\ userFile' # userFile
    /\ UNCHANGED <<systemFile, clock, pc, interval, work_start, work_end,
                   first_run, sleeping, sleep_duration, checked, wait_now,
                   shows, notification, last, prev, waited, since_show,
                   error>>

InitEdit == Init /\ userFile \in EditableFiles

SpecEdit == InitEdit /\ [][Next \/ EditConfigFile]_vars

----------------------------------------------------------------------------
(* Vocabulary of the properties: times as seconds since midnight *)

SecondsOfDay(t) == t % SecondsPerDay
StartSeconds == work_start.hour * 3600 + work_start.minute * 60 + work_start.second
EndSeconds == work_end.hour * 3600 + work_end.minute * 60 + work_end.second

\* start <= now <= end as times-of-day, for the date-time t
InWindow(t) == StartSeconds <= SecondsOfDay(t) /\ SecondsOfDay(t) <= EndSeconds

\* the time that passes from the date-time a to the later date-time b of
\* the wrapping calendar
Elapsed(a, b) == (b - a) % (CalendarDays * SecondsPerDay)

Greeting == [title |-> "Break Reminder", message |-> "Starting work.", timeout |-> 10]
Reminder == [title |-> "Break Reminder",
             message |-> "It's time to take a break and stretch!",
             timeout |-> 10]

\* the configuration has been resolved and main is in its loop
Running == pc \in {"loop", "sleep"}

----------------------------------------------------------------------------
(* C1 *)

\* C1: the first Notifier.show call is the greeting; while no window check
\* has failed every later call is the reminder; each call that returns is
\* followed by asyncio.sleep(interval), and no call is made before that
\* suspension is over, which takes interval seconds of the clock.
C1_GreetingThenReminders ==
    /\ [](shows = 1 => notification = Greeting)
    /\ [](~waited /\ shows >= 2 => notification = Reminder)
    /\ [](last = "notified" /\ pc = "sleep" =>
            /\ sleep_duration = interval
            /\ sleeping = IF shows = 1 \/ prev = "wait" THEN "first" ELSE "steady")
    /\ [][pc = "sleep" /\ last = "notified" =>
            /\ shows' = shows /\ notification' = notification
            /\ pc' = "loop"
            /\ Elapsed(clock, clock') = IF interval > 0 THEN interval ELSE 0]_vars

\* the process started inside the work hours, greeted, slept a positive
\* interval and is suspended after its first reminder
C1_Witness ==
    /\ ~waited /\ shows = 2 /\ notification = Reminder
    /\ prev = "notified" /\ last = "notified"
    /\ pc = "sleep" /\ sleep_duration = interval /\ interval > 0

----------------------------------------------------------------------------
(* C2 *)

\* the first date-time strictly after t whose time-of-day is work_start
NextStartAfter(t) ==
    t + ((StartSeconds - SecondsOfDay(t) - 1) % SecondsPerDay) + 1

\* the reading time_until took, while main is suspended in the wait it led to
WaitReading == wait_now + Elapsed(wait_now, clock)

\* the first pass of the loop is the latest one
FirstPass == prev = "none" /\ last # "none"

\* C2: when the first window check reads a time outside the work hours, no
\* Notifier.show call is made before the suspension that follows is over;
\* that suspension is asked to last until the next occurrence of work_start
\* and takes that long on the clock.
C2_WaitBeforeAnyNotification ==
    /\ [](FirstPass /\ ~InWindow(checked) =>
            /\ last = "wait"
            /\ shows = 0 /\ notification = NoNotification
            /\ pc = "sleep" =>
                  /\ sleeping = "wait"
                  /\ LET left == NextStartAfter(wait_now) - WaitReading
                     IN  sleep_duration = IF left > 0 THEN left ELSE 0)
    /\ [][FirstPass /\ ~InWindow(checked) /\ pc = "sleep" =>
            /\ shows' = 0 /\ pc' = "loop"
            /\ Elapsed(clock, clock') = sleep_duration]_vars

\* the spec's scenario: the default 09:00-17:00 window, the clock read at
\* 20:00, main suspended for the 13 hours to 09:00 of the next day
C2_Witness ==
    /\ FirstPass /\ last = "wait" /\ pc = "sleep" /\ sleeping = "wait"
    /\ StartSeconds = 9 * 3600 /\ EndSeconds = 17 * 3600
    /\ checked = 20 * 3600 /\ wait_now = 20 * 3600 /\ clock = 20 * 3600
    /\ sleep_duration = 13 * 3600
    /\ shows = 0

----------------------------------------------------------------------------
(* C3 *)

\* C3: a window check succeeds exactly when start <= now <= end for the
\* time-of-day now it read, both ends included: the pass notifies when the
\* reading is in the window and waits when it is not.
C3_WindowInclusive ==
    last # "none" => (last = "notified" <=> InWindow(checked))

\* a check that read exactly work_end, with work_start earlier, succeeded
C3_Witness ==
    /\ last = "notified" /\ notification = Reminder
    /\ StartSeconds < EndSeconds
    /\ SecondsOfDay(checked) = EndSeconds

----------------------------------------------------------------------------
(* C4 *)

\* main is suspended in sleep_until_work_start's await
Waiting == pc = "sleep" /\ sleeping = "wait"

\* the first date-time at or after t whose time-of-day is work_start
NextStartAtOrAfter(t) == t + ((StartSeconds - SecondsOfDay(t)) % SecondsPerDay)

\* C4 as stated, on the passes in which time_until reads the clock at the
\* instant sleep_until_work_start read it: the duration is >= 0 and leads
\* from now to the next date-time whose time-of-day is start, today's
\* occurrence also when now's time-of-day is exactly start.
C4_AsStated ==
    Waiting /\ clock = wait_now =>
        /\ sleep_duration >= 0
        /\ wait_now + sleep_duration = NextStartAtOrAfter(wait_now)

\* C4, amended: the duration is >= 0 and, counted from the reading now2 that
\* time_until takes, leads to the first date-time strictly after now whose
\* time-of-day is start (or is 0 when now2 is already past it): tomorrow's
\* occurrence, a whole day away, when now's time-of-day is exactly start.
C4_NextStartStrictlyAfter ==
    Waiting =>
        /\ sleep_duration >= 0
        /\ WaitReading + sleep_duration =
              IF NextStartAfter(wait_now) > WaitReading
              THEN NextStartAfter(wait_now) ELSE WaitReading
        /\ clock = wait_now =>
              /\ SecondsOfDay(wait_now + sleep_duration) = StartSeconds
              /\ sleep_duration > 0 /\ sleep_duration <= 86400
              /\ SecondsOfDay(wait_now) = StartSeconds => sleep_duration = 86400

\* sleep_until_work_start read the clock at exactly work_start and asked for
\* a sleep of a whole day
C4_Witness ==
    /\ Waiting /\ clock = wait_now
    /\ SecondsOfDay(wait_now) = StartSeconds
    /\ sleep_duration = 86400

----------------------------------------------------------------------------
(* C5 *)

\* C5: with work_start > work_end no window check ever succeeds: every pass
\* of the loop waits for the work hours and Notifier.show is never called.
C5_OvernightNeverNotifies ==
    Running /\ StartSeconds > EndSeconds =>
        /\ shows = 0 /\ notification = NoNotification
        /\ last \in {"none", "wait"} /\ prev \in {"none", "wait"}
        /\ pc = "sleep" => sleeping = "wait"

\* a 17:00-09:00 window: main woke at 17:00, its check failed at exactly
\* work_start, and it waits a second time in a row
C5_Witness ==
    /\ StartSeconds = 17 * 3600 /\ EndSeconds = 9 * 3600
    /\ prev = "wait" /\ last = "wait" /\ Waiting
    /\ SecondsOfDay(checked) = StartSeconds
    /\ shows = 0

----------------------------------------------------------------------------
(* C6 *)

\* C6: a failed window check leaves first_run true; the notification of a
\* pass that follows a waiting pass is the greeting; the reminder is sent
\* only by a pass whose preceding pass notified too.
C6_GreetingAfterEveryWait ==
    /\ last = "wait" => first_run
    /\ last = "notified" /\ prev = "wait" => notification = Greeting
    /\ last = "notified" /\ notification.message = Reminder.message =>
            prev = "notified"
    /\ last = "notified" => notification \in {Greeting, Reminder}

\* reminders were being sent, the window closed, main waited, and the next
\* notification is the greeting again
C6_Witness ==
    /\ shows >= 3 /\ prev = "wait" /\ last = "notified"
    /\ notification = Greeting /\ pc = "sleep"

----------------------------------------------------------------------------
(* C7 *)

\* C7: a pass of the loop calls Notifier.show only if the clock reading its
\* window check took satisfies work_start <= now <= work_end, whatever the
\* length of the suspension before it.
C7_NotifyOnlyInsideWindow ==
    /\ last = "notified" => InWindow(checked)
    /\ ~InWindow(checked) => last \in {"none", "wait"}

\* a reminder's interval ran past work_end: the pass that woke from it sent
\* nothing
C7_Witness ==
    /\ prev = "notified" /\ last = "wait" /\ notification = Reminder
    /\ SecondsOfDay(checked) > EndSeconds /\ StartSeconds < EndSeconds
    /\ interval = 7200

----------------------------------------------------------------------------
(* C8 *)

\* C8 as stated: the interval the loop runs with is > 0, whatever accepted
\* file it came from.
C8_IntervalPositive == Running => interval > 0

----------------------------------------------------------------------------
(* C9 *)

\* the file resolve() reads: the user file if it exists, else the system file
ChosenFile == IF userFile.exists THEN userFile ELSE systemFile

\* what the texts of the model's files mean, written out by hand
IntervalMeaning(text) ==
    CASE text = <<"3", "6", "0", "0">> -> 3600
      [] text = <<"7", "2", "0", "0">> -> 7200
      [] text = <<"0">> -> 0
      [] text = <<"-", "3", "6", "0", "0">> -> 0 - 3600
TimeMeaning(text) ==
    CASE text = <<"0", "0", ":", "0", "0">> -> 0
      [] text = <<"9", ":", "0", "0">> -> 9 * 3600
      [] text = <<"1", "7", ":", "0", "0">> -> 17 * 3600

MalformedIntervals == { <<"1", "h">> }
MalformedTimes == { <<"2", "4", ":", "0", "0">>, <<"0", "9", "0", "0">> }

Present(k) == ChosenFile.exists /\ k \in DOMAIN ChosenFile.options
Malformed(k) ==
    /\ Present(k)
    /\ ChosenFile.options[k] \in MalformedIntervals \cup MalformedTimes

\* C9: once resolved, the configuration is {3600, 09:00, 17:00} when the
\* chosen file does not exist; when it exists each missing key has its
\* default and each present key the value its text stands for.
C9_DefaultsForMissing ==
    Running =>
        /\ interval = IF Present("interval")
                      THEN IntervalMeaning(ChosenFile.options["interval"])
                      ELSE 3600
        /\ StartSeconds = IF Present("start")
                          THEN TimeMeaning(ChosenFile.options["start"])
                          ELSE 9 * 3600
        /\ EndSeconds = IF Present("end")
                        THEN TimeMeaning(ChosenFile.options["end"])
                        ELSE 17 * 3600
        /\ work_start.second = 0 /\ work_end.second = 0

\* a user file that holds only [workhours] start = 00:00: the interval and
\* the end are the defaults, the start is the file's
C9_Witness ==
    /\ Running
    /\ userFile.exists /\ DOMAIN userFile.options = {"start"}
    /\ systemFile.exists
    /\ interval = 3600 /\ StartSeconds = 0 /\ EndSeconds = 17 * 3600

----------------------------------------------------------------------------
(* C10 *)

\* C10: when a key of the chosen file holds a malformed value, startup ends
\* in a ValueError: the loop is never entered, nothing is shown, nothing is
\* awaited.
C10_MalformedIsFatal ==
    Malformed("interval") \/ Malformed("start") \/ Malformed("end") =>
        /\ pc \in {"start", "crashed"}
        /\ pc = "crashed" => error = "ValueError"
        /\ shows = 0 /\ notification = NoNotification
        /\ last = "none" /\ sleeping = "none" /\ sleep_duration = 0

\* startup failed on a file whose interval is fine and whose end is 24:00
C10_Witness ==
    /\ pc = "crashed" /\ error = "ValueError"
    /\ Present("interval") /\ ~Malformed("interval")
    /\ Present("start") /\ ~Malformed("start")
    /\ Present("end") /\ ChosenFile.options["end"] = <<"2", "4", ":", "0", "0">>

----------------------------------------------------------------------------
(* C11 *)

\* C11: an exception raised by Notifier.show ends main: the process is left
\* crashed in the pass that made the call, and no step follows (no
\* suspension, no window check, no further call, no passing of main's time).
C11_NotifierFailureIsFatal ==
    /\ [](error = "notify" =>
            /\ pc = "crashed" /\ last = "notified" /\ shows >= 1
            /\ notification \in {Greeting, Reminder})
    /\ [][error = "notify" =>
            /\ pc' = "crashed" /\ error' = "notify"
            /\ shows' = shows /\ notification' = notification
            /\ checked' = checked /\ last' = last /\ prev' = prev
            /\ sleeping' = sleeping /\ sleep_duration' = sleep_duration
            /\ clock' = clock]_vars

\* the second call, a reminder, raised and main is gone
C11_Witness ==
    /\ error = "notify" /\ pc = "crashed"
    /\ shows = 2 /\ notification = Reminder /\ prev = "notified"

----------------------------------------------------------------------------
(* C12 *)

\* C12: once main has resolved interval, work_start and work_end no step
\* changes them, be it a pass of the loop, a wake-up or an edit of the
\* configuration file; main never goes back to resolving, and an edit
\* changes nothing of main's state.
C12_ConfigurationFrozen ==
    /\ [][pc # "start" =>
            /\ interval' = interval
            /\ work_start' = work_start
            /\ work_end' = work_end
            /\ pc' # "start"]_vars
    /\ [][userFile' # userFile \/ systemFile' # systemFile =>
            UNCHANGED <<clock, pc, interval, work_start, work_end, first_run,
                        sleeping, sleep_duration, checked, wait_now, shows,
                        notification, last, prev, waited, since_show,
                        error>>]_vars

\* the user file now holds a malformed interval, yet the loop that started
\* from the 3600 s, 09:00-17:00 file has waited and woken with those values
C12_Witness ==
    /\ userFile.exists /\ userFile.options["interval"] = <<"1", "h">>
    /\ pc = "loop" /\ last = "wait" /\ prev = "notified"
    /\ interval = 3600 /\ StartSeconds = 9 * 3600 /\ EndSeconds = 17 * 3600

----------------------------------------------------------------------------
(* C13 *)

\* C13: a pass of the loop makes at most one Notifier.show call, and only a
\* pass makes one; a pass whose call returned leaves main suspended in
\* asyncio.sleep(interval); no window check and no call happens while main
\* is suspended, and the next pass begins only when that suspension is over.
C13_NotificationsSerialized ==
    /\ [][shows' # shows =>
            pc = "loop" /\ shows' = shows + 1 /\ last' = "notified"]_vars
    /\ [][pc = "loop" /\ last' = "notified" =>
            /\ pc' \in {"sleep", "crashed"}
            /\ pc' = "crashed" <=> error' = "notify"
            /\ pc' = "sleep" =>
                  /\ sleeping' \in {"first", "steady"}
                  /\ sleep_duration' = interval]_vars
    /\ [][pc = "sleep" =>
            /\ pc' = "loop"
            /\ checked' = checked /\ shows' = shows
            /\ notification' = notification /\ last' = last
            /\ Elapsed(clock, clock') =
                  IF sleep_duration > 0 THEN sleep_duration ELSE 0]_vars
    /\ [](pc = "sleep" /\ sleeping \in {"first", "steady"} =>
            last = "notified" /\ sleep_duration = interval)

\* three calls made, main suspended for the 7200 s after the third
C13_Witness ==
    /\ shows = 3 /\ pc = "sleep" /\ sleeping = "steady"
    /\ prev = "notified" /\ last = "notified"
    /\ interval = 7200 /\ sleep_duration = 7200

----------------------------------------------------------------------------
(* C14 *)

\* the configuration main runs with is the one the file f stands for: each
\* key f holds with the meaning of its text, each other key with its default
ResolvedFrom(f) ==
    /\ interval = IF f.exists /\ "interval" \in DOMAIN f.options
                  THEN IntervalMeaning(f.options["interval"]) ELSE 3600
    /\ StartSeconds = IF f.exists /\ "start" \in DOMAIN f.options
                      THEN TimeMeaning(f.options["start"]) ELSE 9 * 3600
    /\ EndSeconds = IF f.exists /\ "end" \in DOMAIN f.options
                    THEN TimeMeaning(f.options["end"]) ELSE 17 * 3600

\* some key of the file f holds a malformed text
HoldsMalformed(f) ==
    \E k \in DOMAIN f.options : f.options[k] \in MalformedIntervals \cup MalformedTimes

----------------------------------------------------------------------------
(* C15 *)

\* a step of main that leaves it in the loop
LoopStep == Next /\ pc' \in {"loop", "sleep"}

\* C15: once the configuration is resolved, main is in the loop or suspended
\* in one of its awaits until a Notifier.show call raises; in every such
\* state a step that keeps it there is enabled, so the loop has no state in
\* which it stops by itself.
C15_NoTerminalState ==
    /\ Running => ENABLED LoopStep
    /\ pc \in {"start", "loop", "sleep", "crashed"}
    /\ pc = "crashed" => error \in {"ValueError", "notify"}
    /\ error = "ValueError" => last = "none" /\ shows = 0
    /\ pc # "start" /\ error = "none" => Running

\* deep in a run: the window closed after three calls or more, main waited,
\* woke, and its next pass is enabled
C15_Witness ==
    /\ pc = "loop" /\ shows >= 3 /\ last = "wait" /\ prev = "notified"
    /\ error = "none" /\ ENABLED LoopStep

----------------------------------------------------------------------------
(* C16 *)

\* main has woken from a wait for the work hours and is about to take its
\* next pass, under a window with work_start <= work_end
WokenFromWait == pc = "loop" /\ last = "wait" /\ StartSeconds <= EndSeconds

\* how long after the occurrence of work_start that the finished wait was
\* for the date-time t lies
LateBy(t) == Elapsed(NextStartAfter(wait_now), t)

\* C16 as stated, its second half: with work_start <= work_end the pass
\* that follows a wait for the work hours finds the clock inside the window
\* and sends the greeting.
C16_AsStated ==
    [][WokenFromWait => last' = "notified" /\ notification' = Greeting]_vars

\* C16, amended: with work_start <= work_end a wait for the work hours does
\* not end before the awaited occurrence of work_start (it ends at once when
\* that is already past), and the pass that follows sends the greeting when its window
\* check reads the clock no more than work_end - work_start after that
\* occurrence; a later reading of the same day fails the check and main
\* waits again.
C16_GreetingIfCheckedInTime ==
    /\ [][Waiting /\ StartSeconds <= EndSeconds =>
            /\ pc' = "loop"
            /\ clock' = Wrap(IF NextStartAfter(wait_now) > WaitReading
                             THEN NextStartAfter(wait_now) ELSE WaitReading)]_vars
    /\ [][WokenFromWait =>
            IF LateBy(checked') <= EndSeconds - StartSeconds
            THEN last' = "notified" /\ notification' = Greeting
            ELSE StartSeconds + LateBy(checked') < SecondsPerDay =>
                    last' = "wait" /\ shows' = shows]_vars

\* after reminders and a night's wait the check read the clock an hour
\* after work_start, inside the window, and the greeting was sent
C16_Witness ==
    /\ prev = "wait" /\ last = "notified" /\ notification = Greeting
    /\ shows >= 3 /\ StartSeconds < EndSeconds
    /\ SecondsOfDay(checked) = StartSeconds + 3600
    /\ SecondsOfDay(wait_now) > EndSeconds

----------------------------------------------------------------------------
(* C17 *)

\* the clock time between the latest show call and the one this step makes,
\* counted up to MaxSince ticks
GapToNextShow ==
    LET gap == since_show + Elapsed(clock, clock')
    IN  IF gap > MaxSince * Tick THEN MaxSince * Tick ELSE gap

\* C17: a step that makes a Notifier.show call other than the first makes it
\* at least interval seconds of the clock after the call before it, be it
\* a reminder after a reminder, a reminder after the greeting, or a greeting
\* after the window closed and a wait.  (A gap counted up to its limit is at
\* least the limit.)
C17_ShowsAnIntervalApart ==
    [][pc = "loop" /\ last' = "notified" /\ shows >= 1 =>
        IF interval <= MaxSince * Tick
        THEN GapToNextShow >= interval
        ELSE GapToNextShow = MaxSince * Tick]_vars

\* a reminder was sent, its interval of 3600 s is over and exactly that
\* much time has passed when the next pass begins inside the window
C17_Witness ==
    /\ pc = "loop" /\ last = "notified" /\ notification = Reminder
    /\ interval = 3600 /\ since_show = 3600
    /\ InWindow(clock)

----------------------------------------------------------------------------
(* C18 *)

\* C18: every wait for the work hours is asked to last between 0 and 86400
\* seconds, and less than 86400 unless the time-of-day of the reading now
\* that sleep_until_work_start took is work_start.
C18_WaitAtMostADay ==
    Waiting =>
        /\ 0 <= sleep_duration /\ sleep_duration <= SecondsPerDay
        /\ sleep_duration = SecondsPerDay =>
              SecondsOfDay(wait_now) = StartSeconds

\* sleep_until_work_start read the clock an hour after work_start, outside
\* the window, and asked for a sleep an hour short of a day
C18_Witness ==
    /\ Waiting /\ clock = wait_now
    /\ SecondsOfDay(wait_now) = (StartSeconds + 3600) % SecondsPerDay
    /\ sleep_duration = SecondsPerDay - 3600

====
